---- MODULE Spec2Model ----
(***************************************************************************)
(* friend_trackmania_leaderboard: main.py as a state machine.              *)
(*                                                                         *)
(* main() is a sequential script: it reads the configuration, then either  *)
(* loads "cached.yml" or fetches every configured player page by page and  *)
(* writes "cached.yml", and finally plots three figures.  The model keeps  *)
(* the file system ("cached.yml") across runs of the script, and draws the *)
(* trackmania.io responses (success or failure, well-formed or malformed   *)
(* gains) nondeterministically.                                            *)
(***************************************************************************)
EXTENDS Integers, Sequences, FiniteSets, TLC

VARIABLES
    cache_file,      \* content of "cached.yml", or NoFile
    pc,              \* position of main(): idle, fetch, returned, write, plot, done, crashed
    cache_hit,       \* what cache_file.exists() answered at line 24 of this run
    trophy_results,  \* main's dict: display name -> list of TrophyData
    player,          \* index in cfg.player_ids of the player being fetched
    page,            \* get_trophies: number of page requests issued so far
    gains,           \* get_trophies: the accumulated list of TrophyData
    num_gains,       \* get_trophies: data["total"] of the last response
    data,            \* get_trophies: resp.json() of the last successful response
    api,             \* per player fetched in this run: the number of gains the provider held
    requests,        \* the HTTP requests of this run: [player_id, page, ok]
    exc,             \* the exception that ended this run, or "None"
    start_date,      \* cfg.plot_settings["categorized"]["start_date"]
    figs,            \* the figures of plot_trophies, or NoFigs
    counts,          \* argument of a call of _sum_trophy_points
    points           \* what that call returned or raised, or NotCalled

vars == <<cache_file, pc, cache_hit, trophy_results, player, page, gains,
          num_gains, data, api, requests, exc, start_date, figs, counts, points>>

-----------------------------------------------------------------------------
(* Bounds of the model *)

\* get_trophies' request_limit parameter (default 100), scaled down
request_limit == 3
\* gains per page served by the provider
PageSize == 2
\* largest entry of a count vector handed to _sum_trophy_points
MaxCount == 18
\* longest count vector handed to _sum_trophy_points
MaxVecLen == 10
\* number of records in a hand-written cache file
MaxRecs == 3

\* the provider may hold one gain more than the page cap can deliver
MaxTotal == request_limit * PageSize + 1

-----------------------------------------------------------------------------
(* Values *)

NoFile == [exists |-> FALSE]
NoFigs == [plotted |-> FALSE]
NotCalled == [exc |-> "NotCalled", val |-> 0]
EmptyDict == <<>>
NoData == [total |-> 0, gains |-> <<>>]

Returned(v) == [exc |-> "None", val |-> v]
Raised(e) == [exc |-> e, val |-> 0]

\* cfg.player_ids: display name -> provider id, in configuration order
player_ids == << <<"jmal", "id-jmal">>, <<"sampleses", "id-sampleses">> >>

PlayerNames == {player_ids[i][1] : i \in 1..Len(player_ids)}

\* the two players plot_trophies hands to plot_race
RacePlayer1 == "jmal"
RacePlayer2 == "sampleses"

Range(s) == {s[i] : i \in 1..Len(s)}

RECURSIVE Pow10(_)
Pow10(i) == IF i = 0 THEN 1 ELSE 10 * Pow10(i - 1)

-----------------------------------------------------------------------------
(* TrophyData *)

expected_len == 9

\* sum(counts[i] * 10**i for i in range(expected_len)), i counting from 0
RECURSIVE SumTerms(_, _)
SumTerms(cs, n) ==
    IF n = 0 THEN 0
    ELSE SumTerms(cs, n - 1) + cs[n] * Pow10(n - 1)

\* only vectors that are too short refused
sum_trophy_points_min_len(cs) ==
    IF Len(cs) < expected_len
    THEN Raised("ValueError")
    ELSE Returned(SumTerms(cs, expected_len))

\* 10 * i where the code has 10 ** i
RECURSIVE SumTermsLinear(_, _)
SumTermsLinear(cs, n) ==
    IF n = 0 THEN 0
    ELSE SumTermsLinear(cs, n - 1) + cs[n] * (10 * (n - 1))

sum_trophy_points_linear(cs) ==
    IF Len(cs) # expected_len
    THEN Raised("ValueError")
    ELSE Returned(SumTermsLinear(cs, expected_len))

_sum_trophy_points(cs) ==
    IF Len(cs) # expected_len
    THEN Raised("ValueError")
    ELSE Returned(SumTerms(cs, expected_len))

\* datetime.fromisoformat: an ISO timestamp, modelled as [day, hour], to a
\* point on the time line (hours)
fromisoformat(iso) == iso.day * 24 + iso.hour

TrophyData(timestamp, achievement_type, count, gain_data) ==
    [timestamp |-> timestamp, achievement_type |-> achievement_type,
     count |-> count, data |-> gain_data]

\* TrophyData.from_gain: the record, or the ValueError of _sum_trophy_points
from_gain(gain_data) ==
    LET c == _sum_trophy_points(gain_data.counts)
    IN  IF c.exc # "None"
        THEN Raised(c.exc)
        ELSE Returned(TrophyData(fromisoformat(gain_data.timestamp),
                                 gain_data.achievement.trophyAchievementType,
                                 c.val,
                                 gain_data))

\* TrophyData.categorize (defined by the class, called nowhere)
categorize(gain_data) ==
    LET achieve == gain_data.achievement
        category == achieve.trophyAchievementType
    IN  IF category = "SoloRanking"
        THEN "SoloRanking - " \o achieve.trophySoloRankingAchievementType
        ELSE category

-----------------------------------------------------------------------------
(* Count vectors *)

ZeroVector(len) == [k \in 1..len |-> 0]

\* the mixed vector of the test, cut or padded to len entries
MixedVector(len) ==
    [k \in 1..len |-> IF k = 1 THEN 5 ELSE IF k = 2 THEN 13 ELSE IF k = 3 THEN 18 ELSE 0]

\* vectors of len entries: the zero vector and the mixed vector, with up to two
\* entries replaced by a value up to MaxCount
CountVectors(len) ==
    UNION { { [base EXCEPT ![i] = a, ![j] = b] :
                <<i, j>> \in {ij \in (1..len) \X (1..len) : ij[1] <= ij[2]},
                a \in {0, 1, 4, MaxCount}, b \in 0..MaxCount }
            : base \in {ZeroVector(len), MixedVector(len)} }

MainVars == <<cache_file, pc, cache_hit, trophy_results, player, page, gains,
              num_gains, data, api, requests, exc, start_date, figs>>

\* main() not running, no cache file, nothing fetched or plotted
MainIdle ==
    /\ pc = "idle"
    /\ cache_hit = FALSE
    /\ trophy_results = EmptyDict
    /\ player = 0
    /\ page = 0
    /\ gains = <<>>
    /\ num_gains = 0
    /\ data = NoData
    /\ api = EmptyDict
    /\ requests = <<>>
    /\ exc = "None"
    /\ figs = NoFigs

-----------------------------------------------------------------------------
(* The provider: GET https://trackmania.io/api/player/{id}/trophies/{page} *)

\* the i-th gain (newest first) the provider holds for the p-th player
GainAt(p, i) ==
    [timestamp |-> [day |-> MaxTotal + 1 - i, hour |-> p],
     achievement |->
        CASE i % 4 = 1 -> [trophyAchievementType |-> "SoloMedal"]
          [] i % 4 = 2 -> [trophyAchievementType |-> "SoloRanking",
                           trophySoloRankingAchievementType |-> "Season"]
          [] i % 4 = 3 -> [trophyAchievementType |-> "CompetitionRanking"]
          [] OTHER     -> [trophyAchievementType |-> "SoloRanking",
                           trophySoloRankingAchievementType |-> "Daily"],
     counts |-> [k \in 1..expected_len |-> IF k <= 3 THEN (i + k + p) % 4 ELSE 0]]

\* all n gains the provider holds for the p-th player
AllGains(p, n) == [i \in 1..n |-> GainAt(p, i)]

\* the body of a successful response for page k of the p-th player, who has n gains
PageOf(p, n, k) ==
    LET first == k * PageSize
        m == IF n - first >= PageSize THEN PageSize
             ELSE IF n - first > 0 THEN n - first ELSE 0
    IN  [total |-> n, gains |-> [j \in 1..m |-> GainAt(p, first + j)]]

\* count vectors of a wrong length, the empty one and longer ones included
MalformedVectors ==
    {ZeroVector(len) : len \in (0..MaxVecLen) \ {expected_len}}
        \cup {MixedVector(len) : len \in (1..MaxVecLen) \ {expected_len}}

\* the bodies the provider may answer with: the page, or the page with one
\* gain carrying a malformed count vector
Responses(p, n, k) ==
    LET body == PageOf(p, n, k)
    IN  {body} \cup
        { [body EXCEPT !.gains[j].counts = v] :
            j \in 1..Len(body.gains), v \in MalformedVectors }

-----------------------------------------------------------------------------
(* get_trophies *)

\* a failed response taken for a good one
request_failed_never(ok) == FALSE

\* line 123: if not resp.ok: raise RuntimeError
request_failed(ok) == ~ok

\* the loop without its break
loop_break_never(gs, total) == FALSE

\* line 129: if len(gains) == num_gains: break
loop_break(gs, total) == Len(gs) = total

\* lines 127-128: the entries decoded up to and without the first that raises
RECURSIVE DecodeGains(_)
DecodeGains(entries) ==
    IF entries = <<>> THEN [exc |-> "None", val |-> <<>>]
    ELSE LET t == from_gain(Head(entries))
         IN  IF t.exc # "None" THEN [exc |-> t.exc, val |-> <<>>]
             ELSE LET rest == DecodeGains(Tail(entries))
                  IN  [exc |-> rest.exc, val |-> <<t.val>> \o rest.val]

\* lines 114-120: a call of get_trophies for the p-th player starts; the
\* provider holds some number of gains for that player
CallGetTrophies(p) ==
    /\ player' = p
    /\ page' = 0
    /\ gains' = <<>>
    /\ num_gains' = 0
    /\ data' = NoData
    /\ \E n \in 0..MaxTotal : api' = [q \in 1..p |-> IF q = p THEN n ELSE api[q]]
    /\ pc' = "fetch"

\* lines 121-131: one iteration of the page loop
GetTrophiesPage ==
    /\ pc = "fetch"
    /\ \E ok \in BOOLEAN, body \in Responses(player, api[player], page) :
        /\ requests' = Append(requests,
                [player_id |-> player_ids[player][2], page |-> page, ok |-> ok])
        /\ IF request_failed(ok)
           THEN /\ pc' = "crashed"
                /\ exc' = "RuntimeError"
                /\ UNCHANGED <<gains, num_gains, data, page>>
           ELSE LET decoded == DecodeGains(body.gains)
                    gs == gains \o decoded.val
                IN  /\ data' = body
                    /\ num_gains' = body.total
                    /\ gains' = gs
                    /\ IF decoded.exc # "None"
                       THEN /\ pc' = "crashed"
                            /\ exc' = decoded.exc
                            /\ page' = page
                       ELSE /\ exc' = exc
                            /\ IF loop_break(gs, body.total) \/ page + 1 >= request_limit
                               THEN pc' = "returned" /\ page' = page
                               ELSE pc' = "fetch" /\ page' = page + 1
    /\ UNCHANGED <<cache_file, cache_hit, trophy_results, player, api,
                   start_date, figs, counts, points>>

-----------------------------------------------------------------------------
(* Plots *)

\* where trophy goes in the sorted list s: behind every entry that is not later
RECURSIVE InsertByTimestamp(_, _)
InsertByTimestamp(s, trophy) ==
    IF s = <<>> THEN <<trophy>>
    ELSE IF s[Len(s)].timestamp <= trophy.timestamp THEN Append(s, trophy)
    ELSE Append(InsertByTimestamp(SubSeq(s, 1, Len(s) - 1), trophy), s[Len(s)])

\* sorted(trophies, key=lambda res: res.timestamp): ascending and stable
RECURSIVE sorted(_)
sorted(trophies) ==
    IF trophies = <<>> THEN <<>>
    ELSE InsertByTimestamp(sorted(SubSeq(trophies, 1, Len(trophies) - 1)),
                           trophies[Len(trophies)])

\* heapq.merge(*iterables, key=lambda v: v[1].timestamp): the heap holds one
\* entry [key, order, value] per iterable that is not exhausted, order being
\* the iterable's position; the least entry is yielded and replaced by the
\* next value of the same iterable
\* equal keys yielded from the later iterable first
HeapLessTiesLast(iterables, i, j) ==
    LET ki == Head(iterables[i])[2].timestamp
        kj == Head(iterables[j])[2].timestamp
    IN  ki < kj \/ (ki = kj /\ i >= j)

HeapLess(iterables, i, j) ==
    LET ki == Head(iterables[i])[2].timestamp
        kj == Head(iterables[j])[2].timestamp
    IN  ki < kj \/ (ki = kj /\ i <= j)

RECURSIVE heapq_merge(_)
heapq_merge(iterables) ==
    LET live == {i \in 1..Len(iterables) : iterables[i] # <<>>}
    IN  IF live = {} THEN <<>>
        ELSE LET i == CHOOSE i \in live : \A j \in live : HeapLess(iterables, i, j)
             IN  <<Head(iterables[i])>>
                    \o heapq_merge([iterables EXCEPT ![i] = Tail(iterables[i])])

\* lines 163-171: the loop over the merged pairs (player, trophy)
RECURSIVE RaceLoop(_, _, _, _)
RaceLoop(merged, sums, t, deltas) ==
    IF merged = <<>> THEN [x |-> t, y |-> deltas]
    ELSE LET who == Head(merged)[1]
             trophy == Head(merged)[2]
             sums2 == [sums EXCEPT ![who] = @ + trophy.count]
         IN  RaceLoop(Tail(merged), sums2, Append(t, trophy.timestamp),
                      Append(deltas, sums2[0] - sums2[1]))

plot_race(player_trophies_chronological, player1, player2) ==
    LET player1_results ==
            [i \in 1..Len(player_trophies_chronological[player1]) |->
                <<0, player_trophies_chronological[player1][i]>>]
        player2_results ==
            [i \in 1..Len(player_trophies_chronological[player2]) |->
                <<1, player_trophies_chronological[player2][i]>>]
    IN  RaceLoop(heapq_merge(<<player1_results, player2_results>>),
                 [w \in {0, 1} |-> 0], <<>>, <<>>)

\* np.cumsum
RECURSIVE cumsum(_)
cumsum(xs) ==
    IF xs = <<>> THEN <<>>
    ELSE LET front == cumsum(SubSeq(xs, 1, Len(xs) - 1))
         IN  Append(front, (IF front = <<>> THEN 0 ELSE front[Len(front)]) + xs[Len(xs)])

plot_cumulative_trophies(player_trophies) ==
    [name \in DOMAIN player_trophies |->
        LET trophies_chronological == sorted(player_trophies[name])
        IN  [x |-> [i \in 1..Len(trophies_chronological) |->
                        trophies_chronological[i].timestamp],
             y |-> cumsum([i \in 1..Len(trophies_chronological) |->
                        trophies_chronological[i].count])]]

\* the cutoff itself left out
after_start_strict(trophy, start) == trophy.timestamp > start

\* line 207: trophy.timestamp >= start_date
after_start(trophy, start) == trophy.timestamp >= start

\* lines 209-211: totals = defaultdict(int); totals[type] += count
RECURSIVE CategoryTotals(_, _)
CategoryTotals(trophies_after_start, totals) ==
    IF trophies_after_start = <<>> THEN totals
    ELSE LET trophy == Head(trophies_after_start)
             key == trophy.achievement_type
             old == IF key \in DOMAIN totals THEN totals[key] ELSE 0
         IN  CategoryTotals(Tail(trophies_after_start),
                [c \in DOMAIN totals \cup {key} |->
                    IF c = key THEN old + trophy.count ELSE totals[c]])

plot_categorized_trophies(categories, player_trophies, start) ==
    [name \in DOMAIN player_trophies |->
        LET trophies_after_start ==
                SelectSeq(player_trophies[name], LAMBDA trophy : after_start(trophy, start))
            totals == CategoryTotals(trophies_after_start, EmptyDict)
        IN  [cat \in categories |-> IF cat \in DOMAIN totals THEN totals[cat] ELSE 0]]

\* lines 137-139: the union of the achievement types of all players' records
all_categories(player_trophies) ==
    UNION { {player_trophies[name][i].achievement_type :
                i \in 1..Len(player_trophies[name])} : name \in DOMAIN player_trophies }

plot_trophies(player_trophies, start_iso) ==
    LET categories == all_categories(player_trophies)
        trophies_chronological ==
            [name \in DOMAIN player_trophies |-> sorted(player_trophies[name])]
    IN  [plotted |-> TRUE,
         cumulative |-> plot_cumulative_trophies(trophies_chronological),
         john_v_marc |-> plot_race(trophies_chronological, RacePlayer1, RacePlayer2),
         categorized |-> plot_categorized_trophies(categories, trophies_chronological,
                                                   fromisoformat(start_iso))]

-----------------------------------------------------------------------------
(* main *)

\* the cache file never found
exists_never(file) == FALSE

\* line 24: cache_file.exists()
exists(file) == file # NoFile

\* the loop over the players left after its first round
players_done_early(p) == p >= 1

\* line 26: the loop over cfg.player_ids.items() has no player left
players_done(p) == p >= Len(player_ids)

\* dataclasses.asdict(trophy)
asdict(trophy) ==
    [k \in {"timestamp", "achievement_type", "count", "data"} |-> trophy[k]]

\* lines 31-34: player -> list of dicts
yamlified(results) ==
    [name \in DOMAIN results |->
        [i \in 1..Len(results[name]) |-> asdict(results[name][i])]]

\* lines 39-42: player -> list of TrophyData(**trophy)
parsed(content) ==
    [name \in DOMAIN content |->
        [i \in 1..Len(content[name]) |->
            TrophyData(content[name][i]["timestamp"],
                       content[name][i]["achievement_type"],
                       content[name][i]["count"],
                       content[name][i]["data"])]]

Terminated == pc \in {"idle", "done", "crashed"}

\* lines 18-28: a run starts, finds no "cached.yml" and calls get_trophies
\* for the first configured player
MainCacheMiss ==
    /\ Terminated
    /\ ~exists(cache_file)
    /\ cache_hit' = FALSE
    /\ trophy_results' = EmptyDict
    /\ requests' = <<>>
    /\ exc' = "None"
    /\ figs' = NoFigs
    /\ CallGetTrophies(1)
    /\ UNCHANGED <<cache_file, start_date, counts, points>>

\* lines 18-24, 36-42: a run starts, finds "cached.yml" and loads it
MainCacheHit ==
    /\ Terminated
    /\ exists(cache_file)
    /\ cache_hit' = TRUE
    /\ trophy_results' = parsed(cache_file.content)
    /\ requests' = <<>>
    /\ exc' = "None"
    /\ figs' = NoFigs
    /\ player' = 0
    /\ page' = 0
    /\ gains' = <<>>
    /\ num_gains' = 0
    /\ data' = NoData
    /\ api' = EmptyDict
    /\ pc' = "plot"
    /\ UNCHANGED <<cache_file, start_date, counts, points>>

\* lines 26-28: get_trophies returned; its list is stored under the player's
\* display name and the loop goes on to the next player, or ends
StoreResult ==
    /\ pc = "returned"
    /\ trophy_results' =
          [name \in DOMAIN trophy_results \cup {player_ids[player][1]} |->
              IF name = player_ids[player][1] THEN gains ELSE trophy_results[name]]
    /\ IF ~players_done(player)
       THEN CallGetTrophies(player + 1)
       ELSE /\ pc' = "write"
            /\ UNCHANGED <<player, page, gains, num_gains, data, api>>
    /\ UNCHANGED <<cache_file, cache_hit, requests, exc, start_date, figs,
                   counts, points>>

\* lines 30-35: "cached.yml" is written
WriteCache ==
    /\ pc = "write"
    /\ cache_file' = [exists |-> TRUE, content |-> yamlified(trophy_results)]
    /\ pc' = "plot"
    /\ UNCHANGED <<cache_hit, trophy_results, player, page, gains, num_gains,
                   data, api, requests, exc, start_date, figs, counts, points>>

\* lines 44-48: the figures are plotted and written
\* (plot_race looks both race players up: a KeyError when one is missing)
PlotTrophies ==
    /\ pc = "plot"
    /\ IF {RacePlayer1, RacePlayer2} \subseteq DOMAIN trophy_results
       THEN /\ figs' = plot_trophies(trophy_results, start_date)
            /\ pc' = "done"
            /\ exc' = exc
       ELSE /\ figs' = figs
            /\ pc' = "crashed"
            /\ exc' = "KeyError"
    /\ UNCHANGED <<cache_file, cache_hit, trophy_results, player, page, gains,
                   num_gains, data, api, requests, start_date, counts, points>>

\* plot_settings.categorized.start_date of the configuration file
StartDates == {[day |-> 0, hour |-> 2], [day |-> 2, hour |-> 1]}

Init ==
    /\ MainIdle
    /\ cache_file = NoFile
    /\ start_date \in StartDates
    /\ counts = <<>>
    /\ points = NotCalled

Next ==
    \/ MainCacheMiss
    \/ MainCacheHit
    \/ GetTrophiesPage
    \/ StoreResult
    \/ WriteCache
    \/ PlotTrophies

Spec == Init /\ [][Next]_vars

-----------------------------------------------------------------------------
(* Runs that find a hand-written "cached.yml" *)

\* the records of a cache file: (player, timestamp, achievement type, count)
CachedEntries ==
    PlayerNames \X {1, 2} \X {"SoloMedal", "SoloRanking"} \X {3, 5}

\* the gain a cached record (timestamp, achievement type, count) was built from
GainOf(timestamp, achievement_type, count) ==
    [timestamp |-> [day |-> 0, hour |-> timestamp],
     achievement |->
        IF achievement_type = "SoloRanking"
        THEN [trophyAchievementType |-> achievement_type,
              trophySoloRankingAchievementType |-> "Season"]
        ELSE [trophyAchievementType |-> achievement_type],
     counts |-> [k \in 1..expected_len |-> IF k = 1 THEN count ELSE 0]]

\* the cache file holding the entries es, each under its player, in order
CacheOf(es, names) ==
    [exists |-> TRUE,
     content |->
        [name \in names |->
            LET mine == SelectSeq(es, LAMBDA e : e[1] = name)
            IN  [i \in 1..Len(mine) |->
                    asdict(from_gain(GainOf(mine[i][2], mine[i][3], mine[i][4])).val)]]]

InitPlot ==
    /\ MainIdle
    /\ \E n \in 0..MaxRecs : \E es \in [1..n -> CachedEntries] :
       \E keys \in {PlayerNames, {es[i][1] : i \in 1..n}} :
            cache_file = CacheOf(es, keys)
    /\ start_date \in {[day |-> 0, hour |-> 1], [day |-> 0, hour |-> 2]}
    /\ counts = <<>>
    /\ points = NotCalled

NextPlot ==
    \/ MainCacheHit
    \/ PlotTrophies

SpecPlot == InitPlot /\ [][NextPlot]_vars

-----------------------------------------------------------------------------
(* Calls of _sum_trophy_points on count vectors (test_sum_trophy_points) *)

InitSum ==
    /\ MainIdle
    /\ cache_file = NoFile
    /\ start_date = [day |-> 0, hour |-> 0]
    /\ \E len \in 0..MaxVecLen :
        counts \in (IF len = 0 THEN {<<>>} ELSE CountVectors(len))
    /\ points = NotCalled

CallSumTrophyPoints ==
    /\ points = NotCalled
    /\ points' = _sum_trophy_points(counts)
    /\ UNCHANGED <<MainVars, counts>>

NextSum == CallSumTrophyPoints

SpecSum == InitSum /\ [][NextSum]_vars

-----------------------------------------------------------------------------
(* Properties *)

\* the display name of the player get_trophies is fetching
CurrentName == player_ids[player][1]

\* the requests of this run made for the player being fetched
CurrentRequests ==
    SelectSeq(requests, LAMBDA r : r.player_id = player_ids[player][2])

\* the weights of the nine positions of a count vector
Weights == <<1, 10, 100, 1000, 10000, 100000, 1000000, 10000000, 100000000>>

UnitVector(i) == [k \in 1..expected_len |-> IF k = i THEN 1 ELSE 0]

\* C1: for every count vector of exactly 9 integers _sum_trophy_points
\* returns counts[0]*1 + counts[1]*10 + ... + counts[8]*10^8, whatever the
\* size of the entries: the mixed vector of the test gives 1935, a single 4
\* at position 3 gives 4000 and a single 1 at position i gives 10^i.
C1_SumIsPositional ==
    (points # NotCalled /\ Len(counts) = expected_len) =>
        /\ points = Returned(counts[1] * Weights[1] + counts[2] * Weights[2]
                + counts[3] * Weights[3] + counts[4] * Weights[4]
                + counts[5] * Weights[5] + counts[6] * Weights[6]
                + counts[7] * Weights[7] + counts[8] * Weights[8]
                + counts[9] * Weights[9])
        /\ counts = <<5, 13, 18, 0, 0, 0, 0, 0, 0>> => points.val = 1935
        /\ counts = <<0, 0, 0, 4, 0, 0, 0, 0, 0>> => points.val = 4000
        /\ \A i \in 1..expected_len : counts = UnitVector(i) => points.val = Weights[i]

\* C1 witness: the call on the mixed vector of the test has returned 1935
C1_Witness ==
    /\ counts = <<5, 13, 18, 0, 0, 0, 0, 0, 0>>
    /\ points = Returned(1935)

\* the last response carries a gain whose count vector has not 9 entries
MalformedResponse ==
    \E j \in 1..Len(data.gains) : Len(data.gains[j].counts) # expected_len

WellFormedRecords(trophies) ==
    \A i \in 1..Len(trophies) : Len(trophies[i].data.counts) = expected_len

\* C2: a gain whose count vector has not exactly 9 entries (empty and longer
\* vectors included) makes _sum_trophy_points fail: no record is built from
\* it, the ValueError leaves get_trophies, and no record list is returned
\* for that player.
C2_WrongLengthFails ==
    /\ MalformedResponse =>
        /\ pc = "crashed"
        /\ exc = "ValueError"
        /\ CurrentName \notin DOMAIN trophy_results
        /\ cache_file = NoFile
    /\ WellFormedRecords(gains)
    /\ ~cache_hit =>
        \A name \in DOMAIN trophy_results : WellFormedRecords(trophy_results[name])

\* C2 witness: the second page of a player carried a gain with a vector of
\* more than 9 entries, and the run ended with the ValueError
C2_Witness ==
    /\ pc = "crashed"
    /\ exc = "ValueError"
    /\ page = 1
    /\ \E j \in 1..Len(data.gains) : Len(data.gains[j].counts) > expected_len

\* C3: get_trophies requests the pages 0, 1, 2, ... in this order; it goes on
\* to the next page only while the number of accumulated records differs
\* from the reported total and the page cap is not reached, and it stops as
\* soon as they are equal: when all gains fit the first page, exactly one
\* request is made.
C3_StopsAtTotal ==
    /\ player > 0 =>
        \A i \in 1..Len(CurrentRequests) : CurrentRequests[i].page = i - 1
    /\ pc = "fetch" =>
        /\ Len(CurrentRequests) = page
        /\ page < request_limit
        /\ page > 0 => Len(gains) # num_gains
    /\ pc = "returned" =>
        /\ Len(CurrentRequests) = page + 1
        /\ Len(gains) = num_gains \/ page + 1 = request_limit
        /\ api[player] <= PageSize => Len(CurrentRequests) = 1

\* C3 witness: get_trophies stopped after its second page, before the cap,
\* with as many records as the provider reported
C3_Witness ==
    /\ pc = "returned"
    /\ page = 1
    /\ page + 1 < request_limit
    /\ Len(gains) = num_gains
    /\ Len(CurrentRequests) = 2

\* C4: a page request that is answered with a non-success response ends the
\* run: it is the last request of the run (no retry, no later page), the run
\* ends with the RuntimeError, the records of the earlier pages reach
\* neither the caller's results nor the cache, and nothing is plotted.
C4_FailedRequestAborts ==
    (\E i \in 1..Len(requests) : ~requests[i].ok) =>
        /\ \A i \in 1..Len(requests) : ~requests[i].ok => i = Len(requests)
        /\ pc = "crashed"
        /\ exc = "RuntimeError"
        /\ CurrentName \notin DOMAIN trophy_results
        /\ cache_file = NoFile
        /\ figs = NoFigs

\* C4 witness: the second page of the second player failed after records
\* had been accumulated from its first page
C4_Witness ==
    /\ pc = "crashed"
    /\ exc = "RuntimeError"
    /\ player = 2
    /\ page = 1
    /\ gains # <<>>
    /\ ~requests[Len(requests)].ok

\* every configured player has been requested in this run
AllPlayersRequested ==
    \A i \in 1..Len(player_ids) :
        \E k \in 1..Len(requests) : requests[k].player_id = player_ids[i][2]

\* the requests of this run go through the players in configuration order
RequestsInPlayerOrder ==
    \A k \in 1..Len(requests) : \A l \in k..Len(requests) :
        \E i \in 1..Len(player_ids) : \E j \in i..Len(player_ids) :
            /\ requests[k].player_id = player_ids[i][2]
            /\ requests[l].player_id = player_ids[j][2]

\* C5 as stated: a run that finds the cache file issues no request and does
\* not write the file; a run that does not find it fetches every configured
\* player and writes the file; a written cache file is never changed.
C5_Original ==
    /\ [](cache_hit => requests = <<>>)
    /\ []((pc \in {"done", "crashed"} /\ ~cache_hit) =>
            (AllPlayersRequested /\ cache_file # NoFile))
    /\ [][(cache_hit' => cache_file' = cache_file)
            /\ (cache_file # NoFile => cache_file' = cache_file)]_vars

\* this run's last request was answered with a failure or a malformed gain
LastFetchFailed ==
    /\ requests # <<>>
    /\ ~requests[Len(requests)].ok \/ MalformedResponse

\* C5 amended: a run that finds the cache file issues no request and does not
\* write the file; a run that does not find it requests the players one
\* after another in configuration order and, if no fetch raises an error,
\* fetches every configured player and writes the file, while a fetch that
\* raises ends the run without the file; a written cache file is never
\* changed.
C5_CacheFileIsTheSignal ==
    /\ [](cache_hit => requests = <<>>)
    /\ [](~cache_hit => RequestsInPlayerOrder)
    /\ []((pc = "done" /\ ~cache_hit) =>
            (AllPlayersRequested /\ cache_file # NoFile /\ ~LastFetchFailed))
    /\ []((pc = "crashed" /\ ~cache_hit) =>
            (LastFetchFailed /\ cache_file = NoFile))
    /\ [](LastFetchFailed => pc = "crashed")
    /\ [][(cache_hit' => cache_file' = cache_file)
            /\ (cache_file # NoFile => cache_file' = cache_file)]_vars

\* C5 witness: a run found the cache file an earlier run had written and
\* plotted from it without a request
C5_Witness ==
    /\ pc = "done"
    /\ cache_hit
    /\ requests = <<>>
    /\ cache_file # NoFile
    /\ \E name \in DOMAIN trophy_results : trophy_results[name] # <<>>

\* the records of all n gains the provider holds for the p-th player
AllRecords(p, n) == [i \in 1..n |-> from_gain(GainAt(p, i)).val]

\* C6 as stated: on the run that fetches, the records of every player are
\* those of all the gains the provider reported for that player, whatever
\* their number; on a run that finds the cache, they are the cached ones.
C6_FullResultSet ==
    /\ (pc \in {"write", "plot", "done"} /\ ~cache_hit) =>
        \A p \in 1..Len(player_ids) :
            trophy_results[player_ids[p][1]] = AllRecords(p, api[p])
    /\ (pc \in {"plot", "done"} /\ cache_hit) =>
        trophy_results = parsed(cache_file.content)

\* what the page loop can deliver of n gains
Deliverable(n) ==
    IF n <= request_limit * PageSize THEN n ELSE request_limit * PageSize

\* C7: the cache file is written only after every configured player has been
\* fetched without a failure, and then holds, under each display name, the
\* whole list get_trophies returned for that player; while players are being
\* fetched, and after a failed fetch, there is no cache file.
C7_AllOrNothing ==
    /\ (~cache_hit /\ pc \in {"fetch", "returned", "write", "crashed"}) =>
        cache_file = NoFile
    /\ (~cache_hit /\ cache_file # NoFile) =>
        /\ pc \in {"plot", "done"}
        /\ \A k \in 1..Len(requests) : requests[k].ok
        /\ DOMAIN cache_file.content = PlayerNames
        /\ \A p \in 1..Len(player_ids) :
            /\ \E k \in 1..Len(requests) : requests[k].player_id = player_ids[p][2]
            /\ cache_file.content[player_ids[p][1]] =
                    [i \in 1..Deliverable(api[p]) |-> asdict(AllRecords(p, api[p])[i])]
    /\ cache_file # NoFile => DOMAIN cache_file.content = PlayerNames

\* C7 witness: the cache file has just been written with the records of both
\* players
C7_Witness ==
    /\ ~cache_hit
    /\ pc = "plot"
    /\ cache_file # NoFile
    /\ \A name \in PlayerNames : Len(cache_file.content[name]) > PageSize

\* C8 as stated: the achievement_type of a record built from a gain is the
\* label TrophyData.categorize gives the gain (the compound label for a
\* "SoloRanking" gain), and the categories of the categorized chart are
\* these labels.
C8_CompoundLabel ==
    /\ \A i \in 1..Len(gains) : gains[i].achievement_type = categorize(gains[i].data)
    /\ (pc = "done" /\ ~cache_hit) =>
        \A name \in DOMAIN trophy_results :
            \A i \in 1..Len(trophy_results[name]) :
                categorize(trophy_results[name][i].data)
                    \in DOMAIN figs.categorized[name]

IsSorted(trophies) ==
    \A i \in 1..Len(trophies) : \A j \in i..Len(trophies) :
        trophies[i].timestamp <= trophies[j].timestamp

RECURSIVE SumOver(_, _)
SumOver(trophies, idx) ==
    IF idx = {} THEN 0
    ELSE LET i == CHOOSE i \in idx : TRUE
         IN  trophies[i].count + SumOver(trophies, idx \ {i})

\* where the i-th record of A lies among the merged records of A and B:
\* behind the records of A before it and the records of B that are earlier
PlaceOfA(A, B, i) ==
    i + Cardinality({j \in 1..Len(B) : B[j].timestamp < A[i].timestamp})

\* where the j-th record of B lies: behind the records of B before it and
\* the records of A that are not later
PlaceOfB(A, B, j) ==
    j + Cardinality({i \in 1..Len(A) : A[i].timestamp <= B[j].timestamp})

\* C9: for timestamp-sorted lists A (player1) and B (player2), plot_race
\* emits one sample per record, in non-decreasing timestamp order, records of
\* equal timestamp in input order and those of A before those of B; the k-th
\* sample is the sum of the counts of the A records among the first k minus
\* that of the B records among them, so the last one is sum(A) - sum(B), and
\* A = [(t1, 5)], B = [(t2, 3)] with t1 < t2 gives [5, 2].
C9_RaceIsStableMerge ==
    (/\ figs # NoFigs
     /\ IsSorted(trophy_results[RacePlayer1])
     /\ IsSorted(trophy_results[RacePlayer2])) =>
        LET A == trophy_results[RacePlayer1]
            B == trophy_results[RacePlayer2]
            x == figs.john_v_marc.x
            y == figs.john_v_marc.y
        IN  /\ Len(x) = Len(A) + Len(B)
            /\ Len(y) = Len(A) + Len(B)
            /\ \A k \in 1..Len(x) : \A l \in k..Len(x) : x[k] <= x[l]
            /\ \A i \in 1..Len(A) : x[PlaceOfA(A, B, i)] = A[i].timestamp
            /\ \A j \in 1..Len(B) : x[PlaceOfB(A, B, j)] = B[j].timestamp
            /\ \A k \in 1..Len(y) :
                y[k] = SumOver(A, {i \in 1..Len(A) : PlaceOfA(A, B, i) <= k})
                        - SumOver(B, {j \in 1..Len(B) : PlaceOfB(A, B, j) <= k})
            /\ Len(y) > 0 =>
                y[Len(y)] = SumOver(A, 1..Len(A)) - SumOver(B, 1..Len(B))
            /\ (/\ Len(A) = 1 /\ Len(B) = 1
                /\ A[1].count = 5 /\ B[1].count = 3
                /\ A[1].timestamp < B[1].timestamp) => y = <<5, 2>>

\* C9 witness: the race of A = [(1, 5)] and B = [(2, 3)] has been plotted
\* as [5, 2]
C9_Witness ==
    /\ pc = "done"
    /\ figs # NoFigs
    /\ Len(trophy_results[RacePlayer1]) = 1
    /\ Len(trophy_results[RacePlayer2]) = 1
    /\ trophy_results[RacePlayer1][1].timestamp = 1
    /\ trophy_results[RacePlayer1][1].count = 5
    /\ trophy_results[RacePlayer2][1].timestamp = 2
    /\ trophy_results[RacePlayer2][1].count = 3
    /\ figs.john_v_marc.y = <<5, 2>>

\* the achievement types of all records of all players
AllTypes ==
    {t \in {"SoloMedal", "SoloRanking", "CompetitionRanking"} :
        \E name \in DOMAIN trophy_results :
            \E i \in 1..Len(trophy_results[name]) :
                trophy_results[name][i].achievement_type = t}

Cutoff == start_date.day * 24 + start_date.hour

\* C10: in the categorized chart every player has one value for every
\* achievement type found in any player's records, before the cutoff or
\* not: the sum of the counts of that player's records of that type with
\* timestamp >= cutoff (a record at the cutoff counts, an earlier one does
\* not), which is 0 when there is no such record.
C10_CategorizedTotals ==
    figs # NoFigs =>
        \A name \in DOMAIN trophy_results :
            LET trophies == trophy_results[name]
            IN  /\ DOMAIN figs.categorized[name] = AllTypes
                /\ \A cat \in AllTypes :
                    figs.categorized[name][cat] =
                        SumOver(trophies,
                            {i \in 1..Len(trophies) :
                                /\ trophies[i].achievement_type = cat
                                /\ trophies[i].timestamp >= Cutoff})

\* C10 witness: a player has one record at the cutoff, which is counted,
\* and one type with a record before the cutoff only, which is reported as 0
C10_Witness ==
    /\ pc = "done"
    /\ figs # NoFigs
    /\ \E name \in DOMAIN trophy_results :
        LET trophies == trophy_results[name]
        IN  /\ \E i \in 1..Len(trophies) :
                /\ trophies[i].timestamp = Cutoff
                /\ figs.categorized[name][trophies[i].achievement_type] = trophies[i].count
            /\ \E i \in 1..Len(trophies) :
                /\ trophies[i].timestamp < Cutoff
                /\ figs.categorized[name][trophies[i].achievement_type] = 0

====
